---------------------------- MODULE Spec2Model ----------------------------
(***************************************************************************)
(* Model of src/app.py, the Streamlit page "Calculadora de Inspeções       *)
(* Aeronáuticas".                                                          *)
(*                                                                         *)
(* The page is a script that Streamlit runs from top to bottom every time  *)
(* a widget changes.  st.button returns True only in the run started by    *)
(* the click, so the block of lines 162-237 runs in that one run and its   *)
(* output disappears in the run started by any other widget.  The state    *)
(* is the loaded catalog, the widgets' values, and what the last run       *)
(* displayed.                                                              *)
(*                                                                         *)
(* Dates are proleptic Gregorian ordinals (datetime.date.toordinal), so    *)
(* date - date and date + timedelta are integer arithmetic.  Intervals     *)
(* are whole numbers of days, as in carregar_dados_exemplo, or NaN, which  *)
(* is what pd.to_numeric(errors='coerce') leaves for an unreadable cell.   *)
(* Flight hours are in hundredths of an hour (the widget's step).          *)
(***************************************************************************)
EXTENDS Integers, Sequences, FiniteSets

VARIABLES
    df_projetos,          \* the catalog (lines 80-102), a sequence of rows
    argsort_impl,         \* how this build's argsort orders equal keys
    projeto_selecionado,  \* st.selectbox, line 121
    data_inicio,          \* st.date_input, line 141
    data_fim,             \* st.date_input, line 143
    horas_inicio,         \* st.number_input, line 148
    horas_fim,            \* st.number_input, line 150
    ciclos_inicio,        \* st.number_input, line 154
    ciclos_fim,           \* st.number_input, line 156
    estado,               \* which branch of lines 162-237 the last run ended in
    metricas,             \* <<total_dias, total_horas, total_ciclos>> or <<>>
    df_resultados,        \* the table shown by st.dataframe, line 213
    proximas,             \* the st.warning / st.success entries, lines 233-235
    hoje                  \* datetime.now().date() of line 225, 0 when not reached

vars == <<df_projetos, argsort_impl, projeto_selecionado, data_inicio, data_fim,
          horas_inicio, horas_fim, ciclos_inicio, ciclos_fim,
          estado, metricas, df_resultados, proximas, hoje>>

entradas == <<df_projetos, argsort_impl, projeto_selecionado, data_inicio,
              data_fim, horas_inicio, horas_fim, ciclos_inicio, ciclos_fim>>

saidas == <<estado, metricas, df_resultados, proximas>>

---------------------------------------------------------------------------
(* Bounds of the model *)

MaxRecords == 2

MaxDate == 4

MaxIntervalo == 2

---------------------------------------------------------------------------
(* Values *)

\* datetime.date.max.toordinal(): date(9999, 12, 31)
DateMaxOrdinal == 3652059

\* A cell of the float64 column "Intervalo em Dias": NaN or a number
NaN == [nan |-> TRUE, valor |-> 0]

Numero(x) == [nan |-> FALSE, valor |-> x]

OverflowError == "OverflowError"

AttributeError == "AttributeError"

Projetos == {"F-16", "F-5"}

\* sorted() on the project names, line 116: '1' < '5'
ProjetoOrdem == <<"F-16", "F-5">>

\* An interval of DateMaxOrdinal days is a positive number that no date can
\* be moved by.
IntervaloValues ==
    {NaN} \cup { Numero(x) : x \in (-1 .. MaxIntervalo) \cup {DateMaxOrdinal} }

\* The period starts on day 1 or day 2 and ends on any day.
DataInicioValues == {1, 2}

DataFimValues == 1 .. MaxDate

\* The final hours and cycles stay at the value the page opens with (1000.00
\* hours, 100 cycles); the initial ones are set below it or above it.
HorasFimDefault == 100000

CiclosFimDefault == 100

HorasInicioValues == {0, HorasFimDefault + 1}

CiclosInicioValues == {0, CiclosFimDefault + 1}

HojeValues == {MaxDate, MaxDate + 2 * MaxIntervalo + 1}

\* Row i of a catalog carries its own position as inspection type and level,
\* as carregar_dados_exemplo numbers its rows.
Catalogos ==
    UNION { { [i \in 1 .. n |-> [Projeto |-> p[i], Tipo |-> i, Nivel |-> i,
                                 Intervalo |-> v[i]]]
              : p \in [1 .. n -> Projetos], v \in [1 .. n -> IntervaloValues] }
            : n \in 1 .. MaxRecords }

---------------------------------------------------------------------------
(* Helpers *)

Range(s) == { s[i] : i \in DOMAIN s }

\* projetos_disponiveis, line 116
ProjetosDisponiveis(df) ==
    SelectSeq(ProjetoOrdem, LAMBDA p : \E i \in DOMAIN df : df[i].Projeto = p)

\* inspecoes_projeto, line 131
InspecoesProjeto(df, projeto) ==
    SelectSeq(df, LAMBDA r : r.Projeto = projeto)

\* inspecoes_dias, line 186
InspecoesDias(inspecoes) ==
    SelectSeq(inspecoes, LAMBDA r : ~r.Intervalo.nan)

\* datetime.date + timedelta(days=n): a datetime.date, or OverflowError
\* when the result is not a date
DateAdd(d, n) ==
    IF d.ordinal + n >= 1 /\ d.ordinal + n <= DateMaxOrdinal
    THEN [tipo |-> "date", ordinal |-> d.ordinal + n]
    ELSE [tipo |-> OverflowError, ordinal |-> 0]

\* what st.date_input returns: a datetime.date
DateInput(ordinal) == [tipo |-> "date", ordinal |-> ordinal]

\* pd.DataFrame(resultados), line 208: a datetime.datetime becomes a
\* Timestamp of a datetime64 column, a datetime.date stays the object it is
DataFrameCell(v) ==
    IF v.tipo = "datetime" THEN [tipo |-> "Timestamp", ordinal |-> v.ordinal]
    ELSE v

\* item["Última realização"].date(), line 229: datetime.datetime and
\* pandas.Timestamp have the method, datetime.date has not
DateMethod(v) ==
    IF v.tipo \in {"datetime", "Timestamp"}
    THEN [tipo |-> "date", ordinal |-> v.ordinal]
    ELSE [tipo |-> AttributeError, ordinal |-> 0]

---------------------------------------------------------------------------
(* The computation of lines 162-237 *)

\* Validar without its last branch
ValidarSemCiclos(inicio, fim, h_inicio, h_fim, c_inicio, c_fim) ==
    IF fim < inicio THEN "erro_data"
    ELSE IF h_fim < h_inicio THEN "erro_horas"
    ELSE "valido"

\* the if / elif chain of lines 164-169
Validar(inicio, fim, h_inicio, h_fim, c_inicio, c_fim) ==
    IF fim < inicio THEN "erro_data"
    ELSE IF h_fim < h_inicio THEN "erro_horas"
    ELSE IF c_fim < c_inicio THEN "erro_ciclos"
    ELSE "valido"

\* QtdInspecoes rounding up instead of down
QtdInspecoesCeil(total_dias, intervalo) ==
    (total_dias + intervalo - 1) \div intervalo

\* int(total_dias // intervalo), line 196
QtdInspecoes(total_dias, intervalo) == total_dias \div intervalo

\* data_inicio + timedelta(days=intervalo), line 202
UltimaRealizacao(inicio, intervalo) == DateAdd(DateInput(inicio), intervalo)

\* ResultadosInicial keeping the rows of the run before
ResultadosAnteriores == df_resultados

\* resultados = [], line 191
ResultadosInicial == <<>>

\* the loop of lines 192-205; the bare except skips the row
RECURSIVE Resultados(_, _, _, _)
Resultados(linhas, inicio, total_dias, acc) ==
    IF linhas = <<>> THEN acc
    ELSE LET row == Head(linhas)
             intervalo == row.Intervalo.valor
             ultima == UltimaRealizacao(inicio, intervalo)
         IN  IF intervalo > 0
             THEN IF ultima.tipo = OverflowError
                  THEN Resultados(Tail(linhas), inicio, total_dias, acc)
                  ELSE Resultados(Tail(linhas), inicio, total_dias,
                           Append(acc,
                               [Inspecao |-> row.Tipo,
                                Nivel |-> row.Nivel,
                                Intervalo |-> intervalo,
                                Quantidade |-> QtdInspecoes(total_dias, intervalo),
                                UltimaRealizacao |-> DataFrameCell(ultima)]))
             ELSE Resultados(Tail(linhas), inicio, total_dias, acc)

\* One step of the argsort behind sort_values: the row goes after the rows
\* with a smaller key.  kind='quicksort' promises nothing about equal keys:
\* the insertion sort numpy uses on short arrays puts the row after them, a
\* vectorised sorting network may put it before them.
RECURSIVE Inserir(_, _, _)
Inserir(s, row, impl) ==
    IF s = <<>> THEN <<row>>
    ELSE IF \/ Head(s).Intervalo < row.Intervalo
            \/ impl = "insertion" /\ Head(s).Intervalo = row.Intervalo
         THEN <<Head(s)>> \o Inserir(Tail(s), row, impl)
         ELSE <<row>> \o s

\* SortValues leaving the rows as they are
SortValuesNenhum(rows, impl) == rows

\* df_resultados.sort_values("Intervalo (dias)"), line 211
RECURSIVE SortValues(_, _)
SortValues(rows, impl) ==
    IF rows = <<>> THEN <<>>
    ELSE Inserir(SortValues(SubSeq(rows, 1, Len(rows) - 1), impl),
                 rows[Len(rows)], impl)

\* the loop of lines 227-235; an exception ends the run with the entries
\* shown so far
RECURSIVE ProximasInspecoes(_, _, _)
ProximasInspecoes(itens, h, acc) ==
    IF itens = <<>> THEN [entradas |-> acc, excecao |-> FALSE]
    ELSE LET item == Head(itens)
             ultima == DateMethod(item.UltimaRealizacao)
             proxima == DateAdd(ultima, item.Intervalo)
             atraso == IF h > proxima.ordinal THEN h - proxima.ordinal ELSE 0
         IN  IF item.Quantidade > 0
             THEN IF ultima.tipo = AttributeError \/ proxima.tipo = OverflowError
                  THEN [entradas |-> acc, excecao |-> TRUE]
                  ELSE ProximasInspecoes(Tail(itens), h,
                           Append(acc,
                               [Inspecao |-> item.Inspecao,
                                proxima |-> proxima.ordinal,
                                atraso |-> atraso,
                                aviso |-> IF atraso > 0 THEN "atrasado"
                                          ELSE "em_dia"]))
             ELSE ProximasInspecoes(Tail(itens), h, acc)

Nada(e) == [estado |-> e, metricas |-> <<>>, df_resultados |-> <<>>,
            proximas |-> <<>>, hoje |-> 0]

\* the body of the if of line 162, run with the clock at day h
Calcular(h) ==
    LET v == Validar(data_inicio, data_fim, horas_inicio, horas_fim,
                     ciclos_inicio, ciclos_fim)
        total_dias == data_fim - data_inicio
        total_horas == horas_fim - horas_inicio
        total_ciclos == ciclos_fim - ciclos_inicio
        m == <<total_dias, total_horas, total_ciclos>>
        inspecoes_dias ==
            InspecoesDias(InspecoesProjeto(df_projetos, projeto_selecionado))
        resultados ==
            Resultados(inspecoes_dias, data_inicio, total_dias, ResultadosInicial)
        tabela == SortValues(resultados, argsort_impl)
        lista == ProximasInspecoes(tabela, h, <<>>)
    IN  IF v # "valido" THEN Nada(v)
        ELSE IF inspecoes_dias = <<>>
             THEN [Nada("sem_intervalo") EXCEPT !.metricas = m]
        ELSE IF resultados = <<>>
             THEN [Nada("nenhuma") EXCEPT !.metricas = m]
        ELSE [estado |-> IF lista.excecao THEN "excecao" ELSE "ok",
              metricas |-> m,
              df_resultados |-> tabela,
              proximas |-> lista.entradas,
              hoje |-> h]

---------------------------------------------------------------------------
(* The state machine *)

Init ==
    /\ df_projetos \in Catalogos
    /\ argsort_impl \in {"insertion", "network"}
    /\ projeto_selecionado = Head(ProjetosDisponiveis(df_projetos))
    /\ data_inicio = 1
    /\ data_fim = MaxDate
    /\ horas_inicio = 0
    /\ horas_fim = HorasFimDefault
    /\ ciclos_inicio = 0
    /\ ciclos_fim = CiclosFimDefault
    /\ estado = "idle"
    /\ metricas = <<>>
    /\ df_resultados = <<>>
    /\ proximas = <<>>
    /\ hoje = 0

\* A run of the script in which st.button returns False: nothing of lines
\* 163-237 is shown.
Rerun ==
    /\ estado' = "idle"
    /\ metricas' = <<>>
    /\ df_resultados' = <<>>
    /\ proximas' = <<>>
    /\ hoje' = 0
    /\ UNCHANGED <<df_projetos, argsort_impl>>

SelecionarProjeto ==
    \E p \in Range(ProjetosDisponiveis(df_projetos)) :
        /\ p # projeto_selecionado
        /\ projeto_selecionado' = p
        /\ Rerun
        /\ UNCHANGED <<data_inicio, data_fim, horas_inicio, horas_fim,
                       ciclos_inicio, ciclos_fim>>

AlterarDataInicio ==
    \E d \in DataInicioValues :
        /\ d # data_inicio
        /\ data_inicio' = d
        /\ Rerun
        /\ UNCHANGED <<projeto_selecionado, data_fim, horas_inicio, horas_fim,
                       ciclos_inicio, ciclos_fim>>

AlterarDataFim ==
    \E d \in DataFimValues :
        /\ d # data_fim
        /\ data_fim' = d
        /\ Rerun
        /\ UNCHANGED <<projeto_selecionado, data_inicio, horas_inicio, horas_fim,
                       ciclos_inicio, ciclos_fim>>

AlterarHorasInicio ==
    \E x \in HorasInicioValues :
        /\ x # horas_inicio
        /\ horas_inicio' = x
        /\ Rerun
        /\ UNCHANGED <<projeto_selecionado, data_inicio, data_fim, horas_fim,
                       ciclos_inicio, ciclos_fim>>

AlterarCiclosInicio ==
    \E x \in CiclosInicioValues :
        /\ x # ciclos_inicio
        /\ ciclos_inicio' = x
        /\ Rerun
        /\ UNCHANGED <<projeto_selecionado, data_inicio, data_fim, horas_inicio,
                       horas_fim, ciclos_fim>>

\* the click on "Calcular Inspeções", line 162
CalcularInspecoes ==
    \E h \in HojeValues :
        LET r == Calcular(h)
        IN  /\ estado' = r.estado
            /\ metricas' = r.metricas
            /\ df_resultados' = r.df_resultados
            /\ proximas' = r.proximas
            /\ hoje' = r.hoje
            /\ UNCHANGED entradas

Next ==
    \/ SelecionarProjeto
    \/ AlterarDataInicio
    \/ AlterarDataFim
    \/ AlterarHorasInicio
    \/ AlterarCiclosInicio
    \/ CalcularInspecoes

Spec == Init /\ [][Next]_vars

---------------------------------------------------------------------------
(* Properties *)

TotalDias == data_fim - data_inicio

Invertido ==
    \/ data_fim < data_inicio
    \/ horas_fim < horas_inicio
    \/ ciclos_fim < ciclos_inicio

Erros == {"erro_data", "erro_horas", "erro_ciclos"}

\* the run passed the validations of lines 164-169
Avaliado == estado \in {"sem_intervalo", "nenhuma", "ok", "excecao"}

\* the run reached the listing of lines 224-235
Listado == estado \in {"ok", "excecao"}

Linhas == DOMAIN df_resultados

\* the rows of the selected project
Registros == Range(InspecoesProjeto(df_projetos, projeto_selecionado))

\* C1: in every result row, "Última realização" is data_inicio plus
\* intervalo * quantidade days, whatever the quantidade (0, 1 or more).
C1_LastOccurrenceScaled ==
    \A i \in Linhas :
        df_resultados[i].UltimaRealizacao.ordinal =
            data_inicio + df_resultados[i].Intervalo * df_resultados[i].Quantidade

\* C2: in every result row, quantidade is floor(total_dias / intervalo), the q
\* with q * intervalo <= total_dias < (q + 1) * intervalo; it is 0 in every
\* row when the period starts and ends on the same day.
C2_OccurrenceCountIsFloor ==
    \A i \in Linhas :
        LET r == df_resultados[i]
        IN  /\ r.Quantidade * r.Intervalo <= TotalDias
            /\ TotalDias < (r.Quantidade + 1) * r.Intervalo
            /\ data_inicio = data_fim => r.Quantidade = 0

\* a row whose interval fits the period at least once and not exactly
C2_Witness ==
    \E i \in Linhas :
        /\ df_resultados[i].Quantidade >= 1
        /\ df_resultados[i].Quantidade * df_resultados[i].Intervalo < TotalDias

\* C3: after an evaluation of a valid period, the table holds exactly one row
\* for each record of the project with intervalo > 0 and none for a record
\* whose intervalo is 0, negative or NaN.
C3_OneRowPerPositiveRecord ==
    Avaliado =>
        \A r \in Registros :
            Cardinality({ i \in Linhas : df_resultados[i].Inspecao = r.Tipo }) =
                IF ~r.Intervalo.nan /\ r.Intervalo.valor > 0 THEN 1 ELSE 0

\* C4: an evaluation with the dates, the hours or the cycles inverted ends in
\* an error and shows no totals, no rows and no listing; totals, rows and
\* listing are shown only when none of the three is inverted.
C4_InvalidWindowRefused ==
    /\ (estado # "idle" /\ Invertido) =>
           /\ estado \in Erros
           /\ metricas = <<>>
           /\ df_resultados = <<>>
           /\ proximas = <<>>
    /\ (metricas # <<>> \/ df_resultados # <<>> \/ proximas # <<>>) => ~Invertido
    /\ estado \in Erros => Invertido

\* an evaluation refused for the cycles alone
C4_Witness ==
    /\ estado = "erro_ciclos"
    /\ data_fim >= data_inicio
    /\ horas_fim >= horas_inicio

C6_ListingIffPositiveCount ==
    Listado =>
        [k \in DOMAIN proximas |-> proximas[k].Inspecao] =
            [k \in DOMAIN SelectSeq(df_resultados, LAMBDA r : r.Quantidade > 0) |->
                SelectSeq(df_resultados, LAMBDA r : r.Quantidade > 0)[k].Inspecao]

\* C7: in every result row, quantidade 0 included, "Última realização" is on
\* or after data_inicio and on or before data_fim.
C7_LastOccurrenceInWindow ==
    \A i \in Linhas :
        /\ data_inicio <= df_resultados[i].UltimaRealizacao.ordinal
        /\ df_resultados[i].UltimaRealizacao.ordinal <= data_fim

C10_StableTies ==
    \A i, j \in Linhas :
        (i < j /\ df_resultados[i].Intervalo = df_resultados[j].Intervalo) =>
            df_resultados[i].Inspecao < df_resultados[j].Inspecao

=============================================================================
